---- MODULE Spec2Model ----
(***************************************************************************)
(* Model of the currency exchange-rate service (src/main.go).              *)
(*                                                                         *)
(* One background worker (startDailyWorker) runs updateRates once at       *)
(* start and once per ticker tick; updateRates fetches a snapshot of       *)
(* quotes and writes it to two PostgreSQL tables inside one transaction.   *)
(* HTTP handlers read the committed tables, one SQL statement at a time    *)
(* (read committed: each statement sees the rows committed when it runs).  *)
(*                                                                         *)
(* Strings are sequences of one-character strings, so that TrimPrefix,     *)
(* len and ToUpper are computed and not assumed.  Decimals are exact:      *)
(* [n |-> mantissa, k |-> number of fractional digits], value n / 10^k.    *)
(***************************************************************************)
EXTENDS Integers, Sequences, FiniteSets, TLC

\* ------------------------------------------------------------------ bounds

\* Units of the store's clock in one second (timestamps are finer than the
\* whole seconds RFC3339 prints).
TicksPerSecond == 2

\* Sync cycles the worker may start in one run of the model.
MaxCycles == 3

\* History rows already in the (persistent) store when the process starts,
\* in the specification that exercises the history query's cap.
PreloadRows == 101

\* Sync cycles the worker may start in the specification that serves every
\* payload.
SyncCycles == 2

\* Sync cycles the worker may start in the specification of the readers
\* served around failed cycles.
ServeCycles == 2

\* Sync cycles the worker may start in the specifications that restart over
\* filled tables.
HandlerCycles == 2

\* ----------------------------------------------------------- program constants

\* LIMIT 100 of the history query.
HistoryLimit == 100

\* len(code) != 3 in updateRates and handleHistory.
CodeLen == 3

\* DECIMAL(18, 8): fractional digits the store keeps.
RateScale == 8

\* result.Round(4) in handleConvert.
ResultPlaces == 4

\* rate.Round(6) in handleHistory and handleLatest.
RatePlaces == 6

\* decimal.DivisionPrecision, the precision of Decimal.Div.
DivisionPrecision == 16

\* HTTP statuses the handlers write; NoResponse stands for a handler that
\* panicked: net/http recovers and closes the connection without a response.
StatusOK == 200
StatusBadRequest == 400
StatusNotFound == 404
StatusInternalServerError == 500
NoResponse == 0

\* ------------------------------------------------------------------ strings

None == "none"

UpperAlpha ==
  <<"A","B","C","D","E","F","G","H","I","J","K","L","M",
    "N","O","P","Q","R","S","T","U","V","W","X","Y","Z">>

LowerAlpha ==
  <<"a","b","c","d","e","f","g","h","i","j","k","l","m",
    "n","o","p","q","r","s","t","u","v","w","x","y","z">>

\* strings.ToUpper on one character (ASCII).
ToUpperChar(c) ==
  IF \E i \in 1..Len(LowerAlpha) : LowerAlpha[i] = c
  THEN UpperAlpha[CHOOSE i \in 1..Len(LowerAlpha) : LowerAlpha[i] = c]
  ELSE c

\* strings.ToUpper.
ToUpper(s) == [i \in 1..Len(s) |-> ToUpperChar(s[i])]

\* The base-currency prefix updateRates strips.
BasePrefix == <<"U","S","D">>

HasPrefix(s, p) == Len(s) >= Len(p) /\ SubSeq(s, 1, Len(p)) = p

\* strings.TrimPrefix: s without the leading p, or s itself when it does
\* not start with p.
TrimPrefix(s, p) == IF HasPrefix(s, p) THEN SubSeq(s, Len(p) + 1, Len(s)) ELSE s

\* code == "" || len(code) != 3 : the pair is skipped.
SkipCode(code) == code = <<>> \/ Len(code) # CodeLen

\* ----------------------------------------------------------------- decimals

RECURSIVE Pow10(_)
Pow10(k) == IF k = 0 THEN 1 ELSE 10 * Pow10(k - 1)

Abs(x) == IF x < 0 THEN -x ELSE x

Sign(x) == IF x < 0 THEN -1 ELSE 1

RECURSIVE Norm(_, _)
\* The decimal n / 10^k without trailing zero digits.
Norm(n, k) ==
  IF n = 0 THEN [n |-> 0, k |-> 0]
  ELSE IF k > 0 /\ n % 10 = 0 THEN Norm(n \div 10, k - 1)
  ELSE [n |-> n, k |-> k]

Dec(n, k) == Norm(n, k)

Zero == Dec(0, 0)

One == Dec(1, 0)

\* Decimal.IsZero.
IsZero(d) == d.n = 0

\* Decimal.Mul (exact).
Mul(a, b) == Norm(a.n * b.n, a.k + b.k)

\* Rounding to `places` fractional digits, half away from zero
\* (Decimal.Round, and the store's rounding of a numeric to its scale).
RoundTo(d, places) ==
  IF d.k <= places THEN d
  ELSE LET s == Pow10(d.k - places)
           q == Abs(d.n) \div s
           r == Abs(d.n) % s
           q2 == IF 2 * r >= s THEN q + 1 ELSE q
       IN  Norm(Sign(d.n) * q2, places)

RECURSIVE FracDigits(_, _, _)
\* Long division: the next `count` fractional digits of r / d (0 <= r < d),
\* followed by the remainder left after them.
FracDigits(r, d, count) ==
  IF count = 0 THEN <<r>>
  ELSE <<(r * 10) \div d>> \o FracDigits((r * 10) % d, d, count - 1)

RECURSIVE DigitsValue(_, _)
\* The number written by the first `count` digits of ds.
DigitsValue(ds, count) ==
  IF count = 0 THEN 0 ELSE 10 * DigitsValue(ds, count - 1) + ds[count]

RECURSIVE Increment(_, _)
\* ds (digits 1..count) plus one unit in the last place: <<carry, digits>>.
Increment(ds, count) ==
  IF count = 0 THEN <<1, <<>>>>
  ELSE IF ds[count] < 9
       THEN <<0, SubSeq(ds, 1, count - 1) \o <<ds[count] + 1>>>>
       ELSE LET up == Increment(ds, count - 1)
            IN  <<up[1], up[2] \o <<0>>>>

\* Decimal.Div: a / b rounded half away from zero to DivisionPrecision
\* fractional digits, as [sign, int, frac]: sign * (int + 0.frac).
\* b is not zero (Div panics on a zero divisor; the caller models that).
Div(a, b) ==
  LET shiftA == IF b.k > a.k THEN b.k - a.k ELSE 0
      shiftB == IF a.k > b.k THEN a.k - b.k ELSE 0
      num    == Abs(a.n) * Pow10(shiftA)
      den    == Abs(b.n) * Pow10(shiftB)
      long   == FracDigits(num % den, den, DivisionPrecision)
      digits == SubSeq(long, 1, DivisionPrecision)
      rem    == long[DivisionPrecision + 1]
      up     == Increment(digits, DivisionPrecision)
      roundUp == 2 * rem >= den
  IN  [sign |-> Sign(a.n) * Sign(b.n),
       int  |-> (num \div den) + (IF roundUp THEN up[1] ELSE 0),
       frac |-> IF roundUp THEN up[2] ELSE digits]

\* Decimal.Round(places) of a quotient, places < DivisionPrecision.
RoundQuotient(q, places) ==
  LET kept == q.int * Pow10(places) + DigitsValue(q.frac, places)
      up   == q.frac[places + 1] >= 5
  IN  Norm(q.sign * (IF up THEN kept + 1 ELSE kept), places)

\* ------------------------------------------------------------ provider data

USDEUR == <<"U","S","D","E","U","R">>
USDJPY == <<"U","S","D","J","P","Y">>
USDXX  == <<"U","S","D","X","X">>
USDOnly == <<"U","S","D">>
EURBare == <<"E","U","R">>
USDeur == <<"U","S","D","e","u","r">>
USDSym == <<"U","S","D","1","$","2">>

EUR == <<"E","U","R">>
JPY == <<"J","P","Y">>

\* The decoded payloads (APIResponse.Quotes) a fetch may return: a map from
\* pair symbol to quoted rate.
QuotesDay1 == (USDEUR :> Dec(9, 1)) @@ (USDJPY :> Dec(15, 0)) @@ (USDXX :> Dec(5, 0))
QuotesDay2 == (USDEUR :> Dec(18, 1)) @@ (USDJPY :> Dec(45, 0))
QuotesZero == (USDEUR :> Dec(0, 0)) @@ (USDJPY :> Dec(15, 0))
QuotesTwice == (USDEUR :> Dec(18, 1)) @@ (EURBare :> Dec(9, 1))
QuotesEUR == (USDEUR :> Dec(18, 1))
QuotesOdd == (USDeur :> Dec(4, 9)) @@ (USDSym :> Dec(15, 9)) @@ (USDOnly :> Dec(1, 0))

Snapshots == {QuotesDay1, QuotesDay2, QuotesZero, QuotesTwice, QuotesOdd}

NoQuotes == [p \in {} |-> Zero]

\* -------------------------------------------------------------------- state

VARIABLES
  rates,          \* exchange_rates, committed: code -> [rate, updated_at]
  history,        \* rate_history, committed: sequence of [code, rate, at]
  clock,          \* the store's clock (NOW())
  wpc,            \* the worker's position
  data,           \* updateRates: the decoded quotes
  pending,        \* updateRates: pairs the range loop has not visited yet
  pair,           \* updateRates: the pair of the iteration in progress
  tx,             \* updateRates: the open transaction and its writes
  orphans,        \* transactions whose tx.Commit returned an error before
                  \* the store had settled them
  tickerOn,       \* the ticker exists (time.NewTicker has run)
  tickBuf,        \* ticks waiting in ticker.C (capacity 1)
  running,        \* updateRates invocations in progress
  cyclesStarted,  \* updateRates invocations so far
  ticksReceived,  \* ticks the worker has taken from ticker.C
  fault,          \* the stage at which the current/last cycle failed, or None
  faults,         \* the outcome of every cycle that has returned, in order
  log,            \* the transactions the store has committed, in order
  snaps,          \* every committed state of exchange_rates so far
  req,            \* the request being handled
  resp,           \* the last response written
  boot,           \* the tables as the process found them
  budget,         \* the sync cycles the worker may start in this run
  provider,       \* the payloads the provider may serve in this run
  reliable        \* the network and the store never fail in this run

storeVars == <<rates, history, clock>>
commitVars == <<rates, history, log, snaps>>
workerVars == <<wpc, data, pending, pair, tx, orphans, tickerOn, tickBuf,
                running, cyclesStarted, ticksReceived, fault, faults, log, snaps>>
handlerVars == <<req, resp>>
envVars == <<boot, budget, provider, reliable>>
vars == <<rates, history, clock, wpc, data, pending, pair, tx, orphans,
          tickerOn, tickBuf, running, cyclesStarted, ticksReceived, fault,
          faults, log, snaps, req, resp, boot, budget, provider, reliable>>

NoRates == [c \in {} |-> [rate |-> Zero, updated_at |-> 0]]

\* No iteration of the range loop is in progress.
NoPair == <<>>

\* A transaction: its state, the rows it has upserted and inserted, its
\* instant (NOW()), and the cycle and quotes it belongs to.
NoTx == [state |-> "none", rates |-> NoRates, hist |-> <<>>, time |-> 0,
         cycle |-> 0, quotes |-> [p \in {} |-> Zero]]

\* ---------------------------------------------------------------- the store

\* INSERT INTO exchange_rates ... ON CONFLICT (currency_code) DO UPDATE:
\* the row of `code` is created or overwritten; the rate is kept with
\* RateScale fractional digits; NOW() is the transaction's time.
Upsert(table, code, rate, now) ==
  [c \in (DOMAIN table) \cup {code} |->
     IF c = code
     THEN [rate |-> RoundTo(rate, RateScale), updated_at |-> now]
     ELSE table[c]]

\* INSERT INTO rate_history (currency_code, rate): one new row;
\* recorded_at defaults to the transaction's time.
HistoryRow(code, rate, now) ==
  [code |-> code, rate |-> RoundTo(rate, RateScale), at |-> now]

\* exchange_rates once the upserts of transaction t are committed.
Apply(table, t) ==
  [c \in (DOMAIN table) \cup (DOMAIN t.rates) |->
     IF c \in DOMAIN t.rates THEN t.rates[c] ELSE table[c]]

\* What a COMMIT makes visible: the transaction's writes if every statement
\* in it succeeded (PostgreSQL turns the COMMIT of a failed transaction
\* into a rollback).
CommitAppliesIgnoringErrors(t) == t.state # "none"

CommitApplies(t) == t.state = "active"

\* The store commits transaction t: its rows become visible together.
Committed(t) ==
  /\ rates' = Apply(rates, t)
  /\ history' = history \o t.hist
  /\ log' = Append(log, t)
  /\ snaps' = snaps \cup {Apply(rates, t)}

\* An upsert of `code` waits for a transaction that has written the row of
\* `code` and is not settled yet.
Blocked(code) == \E o \in orphans : code \in DOMAIN o.rates

\* ------------------------------------------------------------- the worker

\* The select of startDailyWorker can take a tick: the worker is in the
\* select (the previous updateRates has returned) and a tick is waiting.
SelectReadyWhileRunning == wpc # "start" /\ tickBuf = 1

SelectReady == wpc = "select" /\ tickBuf = 1

\* Where the worker is after updateRates returns, whatever its outcome.
AfterCycleExitOnFailure(f) == IF f = None THEN "select" ELSE "exited"

AfterCycle(f) == "select"

\* updateRates is entered.
EnterCycle ==
  /\ cyclesStarted < budget
  /\ wpc' = "get"
  /\ running' = running + 1
  /\ cyclesStarted' = cyclesStarted + 1
  /\ fault' = None
  /\ data' = NoQuotes
  /\ pending' = {}
  /\ pair' = NoPair
  /\ tx' = NoTx

\* updateRates returns (the deferred Rollback ends a transaction that is
\* still open); the first return is followed by time.NewTicker.
ReturnWith(f) ==
  /\ wpc' = AfterCycle(f)
  /\ running' = running - 1
  /\ fault' = f
  /\ faults' = Append(faults, f)
  /\ tx' = NoTx
  /\ pending' = {}
  /\ tickerOn' = TRUE

\* startDailyWorker: the first updateRates call, before the ticker exists.
WorkerStart ==
  /\ wpc = "start"
  /\ EnterCycle
  /\ UNCHANGED <<storeVars, orphans, tickerOn, tickBuf, ticksReceived, faults,
                 log, snaps, handlerVars, envVars>>

\* The runtime's timer puts a tick in ticker.C; a tick that finds the
\* channel full is dropped.
Tick ==
  /\ tickerOn
  /\ tickBuf = 0
  /\ tickBuf' = 1
  /\ UNCHANGED <<storeVars, wpc, data, pending, pair, tx, orphans, tickerOn,
                 running, cyclesStarted, ticksReceived, fault, faults, log,
                 snaps, handlerVars, envVars>>

\* case <-ticker.C: app.updateRates(ctx)
WorkerTick ==
  /\ SelectReady
  /\ tickBuf' = 0
  /\ ticksReceived' = ticksReceived + 1
  /\ EnterCycle
  /\ UNCHANGED <<storeVars, orphans, tickerOn, faults, log, snaps,
                 handlerVars, envVars>>

\* http.Get(url)
Fetch ==
  /\ wpc = "get"
  /\ \/ /\ wpc' = "decode"
        /\ UNCHANGED <<running, fault, faults, tx, pending, tickerOn>>
     \/ /\ ~reliable
        /\ ReturnWith("net")
  /\ UNCHANGED <<storeVars, data, pair, orphans, tickBuf, cyclesStarted,
                 ticksReceived, log, snaps, handlerVars, envVars>>

\* json.NewDecoder(resp.Body).Decode(&data)
Decode ==
  /\ wpc = "decode"
  /\ \/ /\ \E q \in provider : data' = q
        /\ wpc' = "begin"
        /\ UNCHANGED <<running, fault, faults, tx, pending, tickerOn>>
     \/ /\ ~reliable
        /\ ReturnWith("json")
        /\ UNCHANGED data
  /\ UNCHANGED <<storeVars, pair, orphans, tickBuf, cyclesStarted,
                 ticksReceived, log, snaps, handlerVars, envVars>>

\* app.DB.Begin(ctx)
Begin ==
  /\ wpc = "begin"
  /\ \/ /\ wpc' = "loop"
        /\ tx' = [state |-> "active", rates |-> NoRates, hist |-> <<>>,
                  time |-> clock + 1, cycle |-> cyclesStarted,
                  quotes |-> data]
        /\ clock' = clock + 1
        /\ pending' = DOMAIN data
        /\ UNCHANGED <<running, fault, faults, tickerOn>>
     \/ /\ ~reliable
        /\ ReturnWith("begin")
        /\ UNCHANGED clock
  /\ UNCHANGED <<rates, history, data, pair, orphans, tickBuf, cyclesStarted,
                 ticksReceived, log, snaps, handlerVars, envVars>>

\* The transaction after the first tx.Exec of an iteration (the upsert),
\* the error of which the code drops.  A statement that fails aborts the
\* transaction, and every statement of an aborted transaction fails.
ExecUpsert(t, code, rate, fails) ==
  IF t.state # "active" THEN t
  ELSE IF fails THEN [t EXCEPT !.state = "aborted"]
  ELSE [t EXCEPT !.rates = Upsert(t.rates, code, rate, t.time)]

\* The transaction after the second tx.Exec of an iteration (the insert
\* into rate_history), the error of which the code drops too.
ExecHistory(t, code, rate, fails) ==
  IF t.state # "active" THEN t
  ELSE IF fails THEN [t EXCEPT !.state = "aborted"]
  ELSE [t EXCEPT !.hist = Append(t.hist, HistoryRow(code, rate, t.time))]

\* The failure recorded for the cycle once its transaction is t.
FaultAfter(f, t) == IF f = None /\ t.state = "aborted" THEN "exec" ELSE f

\* One iteration of `for pair, rate := range data.Quotes` (the order of a
\* map's range is not specified) up to the return of its first tx.Exec.
LoopStep ==
  /\ wpc = "loop"
  /\ \E p \in pending :
       LET code == TrimPrefix(p, BasePrefix) IN
       /\ pending' = pending \ {p}
       /\ IF SkipCode(code)
          THEN UNCHANGED <<wpc, pair, tx, fault>>
          ELSE \E fails \in BOOLEAN :
                 /\ reliable => ~fails
                 /\ (tx.state = "active" /\ ~fails) => ~Blocked(code)
                 /\ tx' = ExecUpsert(tx, code, data[p], fails)
                 /\ fault' = FaultAfter(fault, tx')
                 /\ pair' = p
                 /\ wpc' = "insert"
  /\ UNCHANGED <<storeVars, data, orphans, tickerOn, tickBuf, running,
                 cyclesStarted, ticksReceived, faults, log, snaps,
                 handlerVars, envVars>>

\* The second tx.Exec of the iteration, then the next iteration.
InsertHistory ==
  /\ wpc = "insert"
  /\ \E fails \in BOOLEAN :
       /\ reliable => ~fails
       /\ tx' = ExecHistory(tx, TrimPrefix(pair, BasePrefix), data[pair], fails)
       /\ fault' = FaultAfter(fault, tx')
  /\ pair' = NoPair
  /\ wpc' = "loop"
  /\ UNCHANGED <<storeVars, data, pending, orphans, tickerOn, tickBuf, running,
                 cyclesStarted, ticksReceived, faults, log, snaps,
                 handlerVars, envVars>>

\* tx.Commit(ctx) is called: the loop is over, COMMIT goes to the store
\* and the worker waits for the reply.
CommitCall ==
  /\ wpc = "loop"
  /\ pending = {}
  /\ wpc' = "commit"
  /\ UNCHANGED <<storeVars, data, pending, pair, tx, orphans, tickerOn,
                 tickBuf, running, cyclesStarted, ticksReceived, fault, faults,
                 log, snaps, handlerVars, envVars>>

\* The store settles the COMMIT while the worker waits in tx.Commit: the
\* rows are visible from here on, before updateRates returns.
StoreCommit ==
  /\ wpc = "commit"
  /\ tx.state \in {"active", "aborted"}
  /\ IF CommitApplies(tx)
     THEN /\ Committed(tx)
          /\ tx' = [tx EXCEPT !.state = "committed"]
     ELSE /\ tx' = [tx EXCEPT !.state = "rolledback"]
          /\ UNCHANGED commitVars
  /\ UNCHANGED <<clock, wpc, data, pending, pair, orphans, tickerOn, tickBuf,
                 running, cyclesStarted, ticksReceived, fault, faults,
                 handlerVars, envVars>>

\* tx.Commit returns, and updateRates with it: with the store's reply, or
\* with an error (which the code drops) when the connection is lost, be it
\* before or after the store has settled the COMMIT.
CommitReturn ==
  /\ wpc = "commit"
  /\ \/ /\ tx.state \in {"committed", "rolledback"}
        /\ ReturnWith(fault)
        /\ UNCHANGED orphans
     \/ /\ ~reliable
        /\ ReturnWith(IF fault # None THEN fault ELSE "commit")
        /\ orphans' = IF tx.state = "active" THEN orphans \cup {tx} ELSE orphans
  /\ UNCHANGED <<storeVars, data, pair, tickBuf, cyclesStarted, ticksReceived,
                 log, snaps, handlerVars, envVars>>

\* The store settles a transaction whose connection was lost during
\* tx.Commit: it commits it if the COMMIT had arrived, else rolls it back.
StoreSettle ==
  /\ \E o \in orphans, arrived \in BOOLEAN :
       /\ orphans' = orphans \ {o}
       /\ IF arrived /\ CommitApplies(o)
          THEN Committed(o)
          ELSE UNCHANGED commitVars
  /\ UNCHANGED <<clock, wpc, data, pending, pair, tx, tickerOn, tickBuf,
                 running, cyclesStarted, ticksReceived, fault, faults,
                 handlerVars, envVars>>

WorkerStep ==
  \/ WorkerStart
  \/ WorkerTick
  \/ Fetch
  \/ Decode
  \/ Begin
  \/ LoopStep
  \/ InsertHistory
  \/ CommitCall
  \/ CommitReturn

\* ------------------------------------------------------------ the handlers

eurLower == <<"e","u","r">>
TwoLetters == <<"E","U">>

\* Query parameters of the requests the model issues.
FromAsked == {eurLower, JPY}

ToAsked == {EUR}

AmountsAsked ==
  { [given |-> FALSE, value |-> Zero],
    [given |-> TRUE, value |-> Dec(0, 0)],
    [given |-> TRUE, value |-> Dec(-2, 0)],
    [given |-> TRUE, value |-> Dec(123456, 5)] }

HistoryCodesAsked == {eurLower, TwoLetters}

Absent == [given |-> FALSE, t |-> 0]

At(t) == [given |-> TRUE, t |-> t]

Idle == [kind |-> "idle"]

NoResp == [kind |-> "none", status |-> NoResponse]

\* amount, _ := decimal.NewFromString(...): a missing or unparsable
\* parameter leaves the zero Decimal; then a zero amount becomes 1.
EffectiveAmountPositiveOnly(a) ==
  LET parsed == IF a.given THEN a.value ELSE Zero
  IN  IF parsed.n <= 0 THEN One ELSE parsed

EffectiveAmount(a) ==
  LET parsed == IF a.given THEN a.value ELSE Zero
  IN  IF IsZero(parsed) THEN One ELSE parsed

\* SELECT rate_to_base FROM exchange_rates WHERE currency_code=$1, scanned:
\* the row's rate, or an error when there is no row.
Lookup(table, code) ==
  IF code \in DOMAIN table
  THEN [found |-> TRUE, rate |-> table[code].rate]
  ELSE [found |-> FALSE, rate |-> Zero]

\* handleConvert, up to and including its first query.
ConvertRead1 ==
  /\ req.kind = "idle"
  /\ \E f \in FromAsked, t \in ToAsked, a \in AmountsAsked :
       req' = [kind |-> "convert", from |-> ToUpper(f), to |-> ToUpper(t),
               asked |-> a, amount |-> EffectiveAmount(a),
               r1 |-> Lookup(rates, ToUpper(f))]
  /\ resp' = NoResp
  /\ UNCHANGED <<storeVars, workerVars, envVars>>

\* The response of handleConvert from what its two queries returned.
ConvertResponse(q, r2) ==
  IF ~q.r1.found \/ ~r2.found
  THEN [kind |-> "convert", status |-> StatusNotFound,
        ask |-> q, r2 |-> r2]
  ELSE IF IsZero(q.r1.rate)
  THEN [kind |-> "convert", status |-> NoResponse, ask |-> q, r2 |-> r2]
  ELSE [kind |-> "convert", status |-> StatusOK, ask |-> q, r2 |-> r2,
        from |-> q.from, to |-> q.to, amount |-> q.amount,
        result |-> RoundQuotient(Div(Mul(q.amount, r2.rate), q.r1.rate),
                                 ResultPlaces)]

\* handleConvert from its second query to the response.
ConvertRead2 ==
  /\ req.kind = "convert"
  /\ resp' = ConvertResponse(req, Lookup(rates, req.to))
  /\ req' = Idle
  /\ UNCHANGED <<storeVars, workerVars, envVars>>

\* handleLatest: one query over exchange_rates, every rate rounded.
LatestBody(table) ==
  [c \in DOMAIN table |->
     [rate |-> RoundTo(table[c].rate, RatePlaces),
      updated_at |-> table[c].updated_at]]

\* The rows of `table` with the codes in `got`.
RowsRead(table, got) == [c \in got |-> table[c]]

\* One SELECT without ORDER BY. app.DB.Query may fail: "Error DB", 500.
\* The connection may break while the rows are read: rows.Next() returns
\* false, rows.Err() is not read, and the handler answers 200 with the rows
\* it has read, which, the order of the rows being the store's choice, are
\* any of the rows. `seen`, `started` and `returned` record when the query
\* ran: the transactions committed, the cycles started and the cycles
\* returned by then (they are not in the body).
HandleLatest ==
  /\ req.kind = "idle"
  /\ \/ /\ ~reliable
        /\ resp' = [kind |-> "latest", status |-> StatusInternalServerError,
                    base |-> None, rates |-> LatestBody(NoRates),
                    seen |-> Len(log), started |-> cyclesStarted,
                    returned |-> Len(faults)]
     \/ \E got \in SUBSET DOMAIN rates :
          /\ reliable => got = DOMAIN rates
          /\ resp' = [kind |-> "latest", status |-> StatusOK,
                      base |-> BasePrefix,
                      rates |-> LatestBody(RowsRead(rates, got)),
                      seen |-> Len(log), started |-> cyclesStarted,
                      returned |-> Len(faults)]
  /\ UNCHANGED <<req, storeVars, workerVars, envVars>>

\* WHERE currency_code = $1 [AND recorded_at >= start] [AND recorded_at <= end]
HistoryMatch(r, code, start, end) ==
  /\ r.code = code
  /\ start.given => r.at >= start.t
  /\ end.given => r.at <= end.t

\* Row x goes before row y in the result; `older` says that x was stored
\* before y.  ORDER BY leaves the order of rows of equal `at` open: the
\* rows of the instants in `reversed` come out last-stored first, the
\* others first-stored first.
GoesBefore(x, y, older, reversed) ==
  x.at > y.at \/ (x.at = y.at /\ (older # (x.at \in reversed)))

RECURSIVE MergeDesc(_, _, _)
\* Two sequences sorted by descending `at`, merged; the rows of a were
\* stored before the rows of b.  A run that lies wholly before the other
\* is taken in one piece.
MergeDesc(a, b, reversed) ==
  IF a = <<>> THEN b
  ELSE IF b = <<>> THEN a
  ELSE IF GoesBefore(b[Len(b)], a[1], FALSE, reversed) THEN b \o a
  ELSE IF GoesBefore(a[Len(a)], b[1], TRUE, reversed) THEN a \o b
  ELSE IF GoesBefore(a[1], b[1], TRUE, reversed)
       THEN <<a[1]>> \o MergeDesc(Tail(a), b, reversed)
       ELSE <<b[1]>> \o MergeDesc(a, Tail(b), reversed)

RECURSIVE SortDesc(_, _)
\* ORDER BY recorded_at DESC
SortDesc(rows, reversed) ==
  IF Len(rows) <= 1 THEN rows
  ELSE LET half == Len(rows) \div 2
       IN  MergeDesc(SortDesc(SubSeq(rows, 1, half), reversed),
                     SortDesc(SubSeq(rows, half + 1, Len(rows)), reversed),
                     reversed)

\* LIMIT n
LimitNone(rows, n) == rows

Limit(rows, n) == IF Len(rows) > n THEN SubSeq(rows, 1, n) ELSE rows

\* The rows of rate_history, each with its place in the table.
Placed(table) ==
  [i \in 1..Len(table) |->
     [code |-> table[i].code, rate |-> table[i].rate, at |-> table[i].at,
      pos |-> i]]

\* The rows the history query of handleHistory returns.
HistoryQuery(table, code, start, end, reversed) ==
  LET Match(r) == HistoryMatch(r, code, start, end)
  IN  Limit(SortDesc(SelectSeq(Placed(table), Match), reversed),
            HistoryLimit)

\* date.Format(time.RFC3339): whole seconds.
FormatRFC3339(t) == t \div TicksPerSecond

\* One element of the response of handleHistory; `at` and `pos` are the
\* row's recorded_at and place as the store holds them (not in the body).
HistoryItem(code, r) ==
  [code |-> code, rate |-> RoundTo(r.rate, RatePlaces),
   date |-> FormatRFC3339(r.at), at |-> r.at, pos |-> r.pos]

HistoryResponse(table, rawCode, start, end, reversed) ==
  LET code == ToUpper(rawCode) IN
  IF Len(code) # CodeLen
  THEN [kind |-> "history", status |-> StatusBadRequest, code |-> code,
        start |-> start, end |-> end, seen |-> Len(table), rows |-> <<>>]
  ELSE LET found == HistoryQuery(table, code, start, end, reversed)
       IN  [kind |-> "history", status |-> StatusOK, code |-> code,
            start |-> start, end |-> end, seen |-> Len(table),
            rows |-> [i \in 1..Len(found) |-> HistoryItem(code, found[i])]]

\* The instants at which two of the rows the query matches were recorded:
\* in the matching rows ordered by instant, two such rows are neighbours.
\* (Only a pair and the same pair without its prefix give one code, so no
\* more than two rows of a code share an instant, and `reversed` covers
\* every order the store may return.)
TieTimes(table, code, start, end) ==
  LET Match(r) == HistoryMatch(r, code, start, end)
      rows == SortDesc(SelectSeq(table, Match), {})
  IN  {rows[i].at : i \in {i \in 1..(Len(rows) - 1) : rows[i].at = rows[i + 1].at}}

StartsAsked == {Absent, At(2)}

EndsAsked == {Absent, At(clock - 1)}

HandleHistory ==
  /\ req.kind = "idle"
  /\ \E c \in HistoryCodesAsked, s \in StartsAsked, e \in EndsAsked :
     \E reversed \in SUBSET TieTimes(history, ToUpper(c), s, e) :
       resp' = HistoryResponse(history, c, s, e, reversed)
  /\ UNCHANGED <<req, storeVars, workerVars, envVars>>

\* ------------------------------------------------------------ specifications

\* The store after n earlier sync cycles, one per clock unit (the tables
\* outlive the process): the first committed USDEUR = 0.9 and USDJPY = 15,
\* the others USDEUR = 0.9.
StoreAfter(n) ==
  LET eur == TrimPrefix(USDEUR, BasePrefix)
      jpy == TrimPrefix(USDJPY, BasePrefix)
  IN  IF n = 0
      THEN [rates |-> NoRates, history |-> <<>>, clock |-> 0]
      ELSE [rates   |-> Upsert(Upsert(NoRates, jpy, Dec(15, 0), 1),
                               eur, Dec(9, 1), n),
            history |-> <<HistoryRow(jpy, Dec(15, 0), 1)>> \o
                        [i \in 1..n |-> HistoryRow(eur, Dec(9, 1), i)],
            clock   |-> n]

InitWith(store, payloads, noFaults, cycles) ==
  /\ budget = cycles
  /\ provider = payloads
  /\ reliable = noFaults
  /\ rates = store.rates
  /\ history = store.history
  /\ clock = store.clock
  /\ wpc = "start"
  /\ data = NoQuotes
  /\ pending = {}
  /\ pair = NoPair
  /\ tx = NoTx
  /\ orphans = {}
  /\ tickerOn = FALSE
  /\ tickBuf = 0
  /\ running = 0
  /\ cyclesStarted = 0
  /\ ticksReceived = 0
  /\ fault = None
  /\ faults = <<>>
  /\ log = <<>>
  /\ boot = [rates |-> store.rates, history |-> store.history]
  /\ snaps = {store.rates}
  /\ req = Idle
  /\ resp = NoResp

\* A first deployment: initDatabase has just created the two tables.
InitSync ==
  InitWith(StoreAfter(0), Snapshots, FALSE, SyncCycles)

\* A first deployment, with a provider that quotes EUR and JPY.
Init ==
  InitWith(StoreAfter(0), {QuotesDay1, QuotesDay2, QuotesZero}, TRUE, MaxCycles)

\* A first deployment, with a provider that serves one payload.
InitLive ==
  InitWith(StoreAfter(0), {QuotesDay1}, FALSE, MaxCycles)

\* A restart over tables that one earlier run has filled, with a provider
\* that may quote a rate of zero.
InitConvert ==
  InitWith(StoreAfter(1), {QuotesDay2, QuotesZero}, TRUE, HandlerCycles)

\* A restart over tables that one earlier run has filled, with a network
\* and a store that may fail.
InitServe ==
  InitWith(StoreAfter(1), {QuotesEUR}, FALSE, ServeCycles)

\* A restart over tables that earlier runs have filled.
InitHistory ==
  InitWith(StoreAfter(PreloadRows), {QuotesTwice}, TRUE, HandlerCycles)

\* The worker, the store and the requests that read exchange_rates.
Next ==
  \/ WorkerStep
  \/ StoreCommit
  \/ Tick
  \/ ConvertRead1
  \/ ConvertRead2
  \/ HandleLatest

\* The worker and the store alone (the handlers write nothing the worker
\* reads), connections that are lost included.
NextWorker == WorkerStep \/ StoreCommit \/ StoreSettle \/ Tick

\* The worker, the store (lost connections included) and the requests that
\* read every rate.
NextServe == WorkerStep \/ StoreCommit \/ StoreSettle \/ Tick \/ HandleLatest

\* The request for the history that a run follows, made at any moment of
\* the run: handleHistory changes nothing in the store, so what a request
\* is answered does not depend on the requests before it.
HistoryRequest == resp = NoResp /\ HandleHistory

\* The worker, the store and the request that reads rate_history.
NextHistory == WorkerStep \/ StoreCommit \/ Tick \/ HistoryRequest

Spec == Init /\ [][Next]_vars

SpecSync == InitSync /\ [][NextWorker]_vars

SpecConvert == InitConvert /\ [][Next]_vars

SpecHistory == InitHistory /\ [][NextHistory]_vars

\* The runtime delivers ticks, every call updateRates makes returns, and
\* the store settles the transactions it holds.
SpecLive ==
  /\ InitLive
  /\ [][NextWorker]_vars
  /\ WF_vars(Tick)
  /\ WF_vars(WorkerStep)
  /\ WF_vars(StoreCommit)
  /\ WF_vars(StoreSettle)

\* The runtime delivers ticks and the worker, once in its select, takes
\* the tick that waits.
SpecServe ==
  /\ InitServe
  /\ [][NextServe]_vars
  /\ WF_vars(Tick)
  /\ WF_vars(WorkerTick)

\* ------------------------------------------------------------------ claims

InCycle == wpc \in {"get", "decode", "begin", "loop", "insert", "commit"}

\* The outcome of cycle n: its failure, or None while it runs and when it
\* succeeded.
CycleFault(n) == IF n <= Len(faults) THEN faults[n] ELSE None

RECURSIVE Replayed(_)
\* The tables after the first n committed transactions.
Replayed(n) ==
  IF n = 0 THEN boot
  ELSE LET before == Replayed(n - 1)
       IN  [rates |-> Apply(before.rates, log[n]),
            history |-> before.history \o log[n].hist]

\* The tables hold what the process found and the writes of the committed
\* transactions, nothing else.
StoreIsLog ==
  /\ rates = Replayed(Len(log)).rates
  /\ history = Replayed(Len(log)).history

\* C1: a sync cycle that fails at any stage (fetch, decode, begin, a
\* statement of the transaction, commit) leaves exchange_rates and
\* rate_history as they were: no rate is updated and no history row is
\* added by that cycle.
C1_FailedCycleLeavesStore ==
  /\ StoreIsLog
  /\ \A i \in 1..Len(log) : CycleFault(log[i].cycle) = None

\* Transaction t holds every write of its cycle: one upsert and one
\* history row for each pair of its quotes that the loop does not skip.
WholeCycle(t) ==
  LET kept  == {p \in DOMAIN t.quotes : ~SkipCode(TrimPrefix(p, BasePrefix))}
      codes == {TrimPrefix(p, BasePrefix) : p \in kept}
  IN  /\ Len(t.hist) = Cardinality(kept)
      /\ \A p \in kept :
           \E i \in 1..Len(t.hist) :
             t.hist[i] = HistoryRow(TrimPrefix(p, BasePrefix), t.quotes[p], t.time)
      /\ DOMAIN t.rates = codes
      /\ \A c \in codes :
           /\ t.rates[c].updated_at = t.time
           /\ \E p \in kept :
                /\ TrimPrefix(p, BasePrefix) = c
                /\ t.rates[c].rate = RoundTo(t.quotes[p], RateScale)

\* C1 (amended): a cycle never leaves some of its writes without the
\* others, and a cycle that failed at the fetch, the decode, the begin or a
\* statement of the transaction leaves none: the tables change only by the
\* whole set of writes of one cycle, at most once per cycle, and only for a
\* cycle that succeeded or whose tx.Commit returned an error although the
\* store committed (before or after the error).
C1_FailedCycleAllOrNothing ==
  /\ StoreIsLog
  /\ \A i \in 1..Len(log) :
       /\ WholeCycle(log[i])
       /\ CycleFault(log[i].cycle) \in {None, "commit"}
       /\ \A j \in 1..Len(log) : log[j].cycle = log[i].cycle => j = i

\* The commit of a cycle over quotes with a skipped pair returned an error
\* and the store has applied it, an earlier cycle having filled the tables.
C1_Witness ==
  /\ Len(log) = 2
  /\ CycleFault(log[2].cycle) = "commit"
  /\ USDXX \in DOMAIN log[2].quotes
  /\ wpc = "select"

\* The two reads of one convert request, and the rows of one latest
\* response, as `table` would have answered them.
ReadsFrom(table, r) ==
  /\ Lookup(table, r.ask.from) = r.ask.r1
  /\ Lookup(table, r.ask.to) = r.r2

\* C2: a request that interleaves with a sync cycle reads one committed
\* snapshot: the two rates handleConvert reads belong to the same committed
\* state of exchange_rates, and so do the rows handleLatest returns.
C2_OneSnapshotPerRequest ==
  /\ resp.kind = "convert" => \E table \in snaps : ReadsFrom(table, resp)
  /\ resp.kind = "latest" => \E table \in snaps : resp.rates = LatestBody(table)

\* C3: convert(A, A, x) returns x exactly, for every stored rate of A and
\* every amount x.
C3_SameCurrencyReturnsAmount ==
  ( /\ resp.kind = "convert"
    /\ resp.ask.from = resp.ask.to
    /\ resp.ask.asked.given
    /\ resp.ask.r1.found
    /\ resp.r2.found )
  => /\ resp.status = StatusOK
     /\ resp.result = resp.ask.asked.value

LettersOnly(code, alphabet) ==
  \A i \in 1..Len(code) : \E j \in 1..Len(alphabet) : alphabet[j] = code[i]

\* A code of exactly three letters.
ThreeLetters(code) ==
  /\ Len(code) = CodeLen
  /\ LettersOnly(code, UpperAlpha \o LowerAlpha)

\* A valid currency code: exactly three uppercase letters.
ValidCode(code) ==
  /\ Len(code) = CodeLen
  /\ LettersOnly(code, UpperAlpha)

\* The rows of transaction t are those the claim gives its cycle.
RowsAsClaimed(t) ==
  LET good  == {p \in DOMAIN t.quotes : ThreeLetters(TrimPrefix(p, BasePrefix))}
      codes == {TrimPrefix(p, BasePrefix) : p \in good}
  IN  /\ DOMAIN t.rates = codes
      /\ \A p \in good :
           t.rates[TrimPrefix(p, BasePrefix)].rate = RoundTo(t.quotes[p], RateScale)
      /\ Len(t.hist) = Cardinality(codes)
      /\ \A c \in codes :
           Cardinality({i \in 1..Len(t.hist) : t.hist[i].code = c}) = 1

\* C4: a successful sync cycle leaves one Rate row, holding the quote's
\* rate, per code obtained by stripping USD from a pair whose stripped code
\* has exactly three letters, and appends exactly one history row per such
\* code; the other pairs create no row.
C4_RowsOfSuccessfulCycle ==
  \A n \in 1..Len(faults) :
    faults[n] = None =>
      \E i \in 1..Len(log) : log[i].cycle = n /\ RowsAsClaimed(log[i])

\* C5: every convert request is answered, with 404 when `from` or `to` has
\* no stored rate and otherwise with amount * rate(to) / rate(from) rounded
\* to four places, whatever rates a sync cycle has stored.
C5_ConvertAlwaysAnswers ==
  resp.kind = "convert" =>
    \/ /\ resp.status = StatusNotFound
       /\ ~resp.ask.r1.found \/ ~resp.r2.found
    \/ /\ resp.status = StatusOK
       /\ resp.ask.r1.found /\ resp.r2.found
       /\ resp.result =
            RoundQuotient(Div(Mul(resp.amount, resp.r2.rate), resp.ask.r1.rate),
                          ResultPlaces)

\* C6: zero and negative amounts are scaled linearly: for stored A, B and
\* every amount x given, zero and negative included, the result is
\* x * rate(B) / rate(A) rounded to four places.  (Stated for a non-zero
\* rate(A), so that the division is defined.)
C6_LinearInAmount ==
  ( /\ resp.kind = "convert"
    /\ resp.ask.asked.given
    /\ resp.ask.r1.found
    /\ resp.r2.found
    /\ ~IsZero(resp.ask.r1.rate) )
  => /\ resp.status = StatusOK
     /\ resp.result =
          RoundQuotient(Div(Mul(resp.ask.asked.value, resp.r2.rate),
                            resp.ask.r1.rate),
                        ResultPlaces)

\* C6 (amended): a negative amount is scaled linearly and a zero amount is
\* replaced by 1: for stored A, B and every amount x given, the result is
\* x' * rate(B) / rate(A) rounded to four places, where x' is 1 if x is
\* zero and x otherwise; when rate(A) is zero there is no quotient and the
\* request gets no response.
C6_LinearInEffectiveAmount ==
  ( /\ resp.kind = "convert"
    /\ resp.ask.asked.given
    /\ resp.ask.r1.found
    /\ resp.r2.found )
  => LET x      == resp.ask.asked.value
         scaled == IF x.n = 0 THEN Dec(1, 0) ELSE x
     IN  IF resp.ask.r1.rate.n = 0
         THEN resp.status = NoResponse
         ELSE /\ resp.status = StatusOK
              /\ resp.result =
                   RoundQuotient(Div(Mul(scaled, resp.r2.rate),
                                     resp.ask.r1.rate),
                                 ResultPlaces)

\* Amount 0 was given, and the response is the conversion of 1, not 0.
C6_Witness ==
  /\ resp.kind = "convert"
  /\ resp.status = StatusOK
  /\ resp.ask.asked.given
  /\ resp.ask.asked.value = Zero
  /\ resp.ask.from # resp.ask.to
  /\ resp.result # Zero

Min(a, b) == IF a < b THEN a ELSE b

\* The rows of rate_history, among those stored when the query ran, that
\* have the code and lie in the window of response r.
Matching(r) ==
  {i \in 1..r.seen :
     /\ history[i].code = r.code
     /\ r.start.given => history[i].at >= r.start.t
     /\ r.end.given => history[i].at <= r.end.t}

\* C7: the history query returns only entries of the code within the given
\* bounds (each applied only when given, both inclusive), newest first, at
\* most 100 of them, and the most recent ones when more than 100 match.
C7_HistoryWindow ==
  (resp.kind = "history" /\ resp.status = StatusOK) =>
    LET rows   == resp.rows
        n      == Len(rows)
        match  == Matching(resp)
        picked == {rows[k].pos : k \in 1..n}
    IN  /\ picked \subseteq match
        /\ Cardinality(picked) = n
        /\ \A k \in 1..n :
             /\ rows[k].code = resp.code
             /\ rows[k].at = history[rows[k].pos].at
             /\ rows[k].rate = RoundTo(history[rows[k].pos].rate, RatePlaces)
        /\ \A k \in 1..(n - 1) : rows[k].at >= rows[k + 1].at
        /\ n = Min(Cardinality(match), HistoryLimit)
        /\ \A i \in match \ picked : history[i].at <= rows[n].at

\* A query with both bounds given that matched more than 100 rows, two of
\* them of the same instant, and returned 100.
C7_Witness ==
  /\ resp.kind = "history"
  /\ resp.status = StatusOK
  /\ resp.start.given
  /\ resp.end.given
  /\ Len(resp.rows) = HistoryLimit
  /\ Cardinality(Matching(resp)) > HistoryLimit
  /\ resp.rows[1].at = resp.rows[2].at

\* C8: every currency code in exchange_rates and in rate_history is exactly
\* three uppercase letters, whatever pair symbols the quotes contain.
C8_StoredCodesValid ==
  /\ \A c \in DOMAIN rates : ValidCode(c)
  /\ \A i \in 1..Len(history) : ValidCode(history[i].code)

\* C9: the worker runs one cycle at start, before any tick, then one cycle
\* per tick it takes, and at most one updateRates is in progress.
C9_OneCycleAtATime ==
  /\ running <= 1
  /\ running = 1 <=> InCycle
  /\ wpc = "start" <=> cyclesStarted = 0
  /\ cyclesStarted > 0 => cyclesStarted = ticksReceived + 1
  /\ (cyclesStarted = 0 \/ (cyclesStarted = 1 /\ InCycle)) =>
       ~tickerOn /\ tickBuf = 0 /\ ticksReceived = 0

\* A later cycle is in progress and the next tick is already waiting.
C9_Witness ==
  /\ InCycle
  /\ cyclesStarted = MaxCycles
  /\ tickBuf = 1

\* The response r of handleLatest was read after a cycle had failed and
\* returned, no other cycle having started yet.
ReadAfterFailure(r) ==
  /\ r.kind = "latest"
  /\ r.returned > 0
  /\ r.started = r.returned
  /\ faults[r.returned] # None

\* The outcome of cycle n as it was when response r was read.
FaultAtRead(r, n) == IF n <= r.returned THEN faults[n] ELSE None

RECURSIVE RatesOf(_, _, _)
\* exchange_rates as the process found it plus, of the first n committed
\* transactions, those of the cycles whose outcome (when r was read) is in
\* `outcomes`.
RatesOf(r, n, outcomes) ==
  IF n = 0 THEN boot.rates
  ELSE LET before == RatesOf(r, n - 1, outcomes)
       IN  IF FaultAtRead(r, log[n].cycle) \in outcomes
           THEN Apply(before, log[n])
           ELSE before

\* The rates of response r are rows of `body`: each code it has, with the
\* rate and the time `body` has for it.
ServedFrom(r, body) ==
  \A c \in DOMAIN r.rates : c \in DOMAIN body /\ r.rates[c] = body[c]

\* C10: a cycle that failed has returned to the worker's loop, a reader
\* that comes after it and is answered 200 is served the data of the last
\* successful cycle (the rates as the successful cycles alone have made
\* them), and the failed cycle is always eventually followed by a new one
\* (as long as the run has cycles left).
C10_FailedCycleIsRetried ==
  /\ []((running = 0 /\ fault # None) => wpc = "select")
  /\ []((ReadAfterFailure(resp) /\ resp.status = StatusOK) =>
         resp.rates = LatestBody(RatesOf(resp, resp.seen, {None})))
  /\ (running = 0 /\ fault # None /\ cyclesStarted < budget) ~> (wpc = "get")

\* C10 (amended): a cycle that failed has returned to the worker's loop,
\* every rate a reader that comes after it is served is a rate of the last
\* cycle the store has committed (the rates as made by the successful
\* cycles and by the cycles whose tx.Commit returned an error although the
\* store committed, and by no other failed cycle; the reader may be served
\* only some of them), and the failed cycle is always eventually followed by
\* a new one (as long as the run has cycles left).
C10_FailedCycleServedAndRetried ==
  /\ []((running = 0 /\ fault # None) => wpc = "select")
  /\ []((ReadAfterFailure(resp) /\ resp.status = StatusOK) =>
         ServedFrom(resp, LatestBody(RatesOf(resp, resp.seen,
                                            {None, "commit"}))))
  /\ (running = 0 /\ fault # None /\ cyclesStarted < budget) ~> (wpc = "get")

\* A reader was served every rate of the earlier run after the first cycle
\* had failed, and the second cycle has started.
C10_Witness ==
  /\ ReadAfterFailure(resp)
  /\ resp.status = StatusOK
  /\ resp.returned = 1
  /\ resp.rates = LatestBody(boot.rates)
  /\ wpc = "get"
  /\ cyclesStarted = 2

====
